---------------------------- MODULE Spec2Model ----------------------------
(***************************************************************************)
(* A model of server.js: an HTTP front-end that provisions three bare git *)
(* repositories at start-up and forwards every /git/* request to a         *)
(* spawned `git http-backend` CGI process, translating the CGI response    *)
(* (header block, CRLF CRLF, body) back into the HTTP response.            *)
(*                                                                         *)
(* Strings are TLA+ strings; a string is handled as the sequence of its    *)
(* characters (Len, SubSeq, \o).                                           *)
(***************************************************************************)
EXTENDS Integers, Sequences, FiniteSets, TLC

(***************************************************************************)
(* Bounds of the model.                                                    *)
(***************************************************************************)
\* longest generated tail appended to a prefix to form a request target
MaxRest == 3
\* number of request slots (requests that can be in flight together)
NumRequests == 2
\* largest stdout chunk, in bytes, delivered by one 'data' event of SpecStream
MaxChunk == 3
\* size of the stdout chunks of the concurrent specification Spec
ConcChunk == 4
\* runs of the program (start-ups) SpecBoot follows
MaxRuns == 2
\* bytes the response transport buffers before res.write reports it is full
HighWaterMark == 2

(***************************************************************************)
(* JavaScript string primitives used by the source.                        *)
(***************************************************************************)
\* s.substring(n)
Substring(s, n) == IF n >= Len(s) THEN "" ELSE SubSeq(s, n + 1, Len(s))

\* s.substring(0, n) / buffer.subarray(0, n)
Prefix(s, n) == IF n <= 0 THEN "" ELSE SubSeq(s, 1, IF n > Len(s) THEN Len(s) ELSE n)

\* s.startsWith(p)
StartsWith(s, p) == Len(s) >= Len(p) /\ Prefix(s, Len(p)) = p

\* s.indexOf(p): 0-based index of the first occurrence, -1 when there is none
IndexOf(s, p) ==
    LET hits == {i \in 0..(Len(s) - Len(p)) : SubSeq(s, i + 1, i + Len(p)) = p}
    IN  IF hits = {} THEN -1 ELSE CHOOSE i \in hits : \A j \in hits : i <= j

\* s.includes(p)
Includes(s, p) == IndexOf(s, p) # -1

\* s.split(sep), sep non-empty: a sequence of strings
RECURSIVE Split(_, _)
Split(s, sep) ==
    LET i == IndexOf(s, sep)
    IN  IF i = -1 THEN <<s>>
        ELSE <<Prefix(s, i)>> \o Split(Substring(s, i + Len(sep)), sep)

\* parts.join(sep)
RECURSIVE Join(_, _)
Join(parts, sep) ==
    IF Len(parts) = 0 THEN ""
    ELSE IF Len(parts) = 1 THEN parts[1]
    ELSE parts[1] \o sep \o Join(Tail(parts), sep)

WhiteSpace == {" ", "\t", "\r", "\n"}

RECURSIVE TrimStart(_)
TrimStart(s) ==
    IF Len(s) > 0 /\ Prefix(s, 1) \in WhiteSpace THEN TrimStart(Substring(s, 1)) ELSE s

RECURSIVE TrimEnd(_)
TrimEnd(s) ==
    IF Len(s) > 0 /\ Substring(s, Len(s) - 1) \in WhiteSpace
    THEN TrimEnd(Prefix(s, Len(s) - 1)) ELSE s

\* s.trim()
Trim(s) == TrimEnd(TrimStart(s))

UpperToLower ==
    [c \in {"A", "C", "E", "L", "S", "T", "U", "X"} |->
        CASE c = "A" -> "a" [] c = "C" -> "c" [] c = "E" -> "e" [] c = "L" -> "l"
          [] c = "S" -> "s" [] c = "T" -> "t" [] c = "U" -> "u" [] c = "X" -> "x"]

\* s.toLowerCase(), over the letters that occur in the model's inputs
RECURSIVE ToLowerCase(_)
ToLowerCase(s) ==
    IF Len(s) = 0 THEN ""
    ELSE LET c == Prefix(s, 1)
         IN  (IF c \in DOMAIN UpperToLower THEN UpperToLower[c] ELSE c)
                \o ToLowerCase(Substring(s, 1))

DigitValue ==
    [c \in {"0", "1", "2", "3", "4", "5", "6", "7", "8", "9"} |->
        CASE c = "0" -> 0 [] c = "1" -> 1 [] c = "2" -> 2 [] c = "3" -> 3 [] c = "4" -> 4
          [] c = "5" -> 5 [] c = "6" -> 6 [] c = "7" -> 7 [] c = "8" -> 8 [] c = "9" -> 9]

\* the value of JavaScript's NaN
NaN == "NaN"

RECURSIVE DigitsValue(_, _)
DigitsValue(s, acc) ==
    IF Len(s) > 0 /\ Prefix(s, 1) \in DOMAIN DigitValue
    THEN DigitsValue(Substring(s, 1), 10 * acc + DigitValue[Prefix(s, 1)])
    ELSE acc

\* parseInt(s): leading white space skipped, then the longest run of decimal
\* digits; NaN when there is no digit (signs and radix prefixes do not occur)
ParseInt(s) ==
    LET t == TrimStart(s)
    IN  IF Len(t) > 0 /\ Prefix(t, 1) \in DOMAIN DigitValue THEN DigitsValue(t, 0) ELSE NaN

(***************************************************************************)
(* new URL(req.url, 'http://localhost'): the WHATWG URL parser, for a      *)
(* request target made of '/', '?', '.', '%2e' and ordinary characters     *)
(* (no '#', no backslash, no '@', no ':').                                 *)
(***************************************************************************)
SingleDot == {".", "%2e", "%2E"}
DoubleDot == {"..", ".%2e", ".%2E", "%2e.", "%2E.", "%2e%2e", "%2e%2E", "%2E%2e", "%2E%2E"}

\* the path state: dot segments are resolved, empty segments are kept
RECURSIVE PathSegments(_, _)
PathSegments(segs, path) ==
    IF Len(segs) = 0 THEN path
    ELSE LET seg  == Head(segs)
             last == Len(segs) = 1
             next ==
                IF seg \in DoubleDot
                THEN LET shortened == IF Len(path) = 0 THEN path
                                      ELSE SubSeq(path, 1, Len(path) - 1)
                     IN  IF last THEN Append(shortened, "") ELSE shortened
                ELSE IF seg \in SingleDot
                THEN IF last THEN Append(path, "") ELSE path
                ELSE Append(path, seg)
         IN  PathSegments(Tail(segs), next)

RECURSIVE SerializePath(_)
SerializePath(path) ==
    IF Len(path) = 0 THEN "" ELSE "/" \o Head(path) \o SerializePath(Tail(path))

RECURSIVE StripSlashes(_)
StripSlashes(s) == IF StartsWith(s, "/") THEN StripSlashes(Substring(s, 1)) ELSE s

\* the part of s before its first '?'
BeforeQuery(s) == IF Includes(s, "?") THEN Prefix(s, IndexOf(s, "?")) ELSE s
\* the part of s after its first '?'
AfterQuery(s) == IF Includes(s, "?") THEN Substring(s, IndexOf(s, "?") + 1) ELSE ""

\* [ok, pathname, query]; ok = FALSE is the TypeError the constructor throws
ParseUrl(target) ==
    LET schemeRelative == StartsWith(target, "//")
        rest     == IF schemeRelative THEN StripSlashes(target) ELSE target
        noQuery  == BeforeQuery(rest)
        host     == IF Includes(noQuery, "/") THEN Prefix(noQuery, IndexOf(noQuery, "/"))
                    ELSE noQuery
        rawPath  == IF schemeRelative THEN Substring(noQuery, Len(host)) ELSE noQuery
        segs     == Split(IF StartsWith(rawPath, "/") THEN Substring(rawPath, 1) ELSE rawPath, "/")
    IN  IF schemeRelative /\ host = ""
        THEN [ok |-> FALSE, pathname |-> "", query |-> ""]
        ELSE [ok |-> TRUE,
              pathname |-> SerializePath(PathSegments(segs, <<>>)),
              query |-> AfterQuery(rest)]


\* one 'name=value' piece of a query string as <<name, value>>
QueryPair(piece) ==
    IF Includes(piece, "=")
    THEN <<Prefix(piece, IndexOf(piece, "=")), Substring(piece, IndexOf(piece, "=") + 1)>>
    ELSE <<piece, "">>

\* url.searchParams: the non-empty '&'-separated pieces, in order
RECURSIVE SearchParams(_)
SearchParams(pieces) ==
    IF Len(pieces) = 0 THEN <<>>
    ELSE IF Head(pieces) = "" THEN SearchParams(Tail(pieces))
    ELSE <<QueryPair(Head(pieces))>> \o SearchParams(Tail(pieces))

\* Object.fromEntries(pairs): a repeated name keeps its first position and
\* takes its last value
RECURSIVE FromEntries(_, _)
FromEntries(pairs, obj) ==
    IF Len(pairs) = 0 THEN obj
    ELSE LET p == Head(pairs)
             at == {k \in 1..Len(obj) : obj[k][1] = p[1]}
         IN  FromEntries(Tail(pairs),
                 IF at = {} THEN Append(obj, p)
                 ELSE [k \in 1..Len(obj) |-> IF k \in at THEN p ELSE obj[k]])

RECURSIVE PairStrings(_)
PairStrings(obj) ==
    IF Len(obj) = 0 THEN <<>>
    ELSE <<Head(obj)[1] \o "=" \o Head(obj)[2]>> \o PairStrings(Tail(obj))

\* new URLSearchParams(Object.fromEntries(url.searchParams)).toString(); the
\* characters of the model's query strings are not percent-encoded
QueryString(query) ==
    Join(PairStrings(FromEntries(SearchParams(Split(query, "&")), <<>>)), "&")

(***************************************************************************)
(* Requests.  A request is its method, its target (req.url) and the        *)
(* headers the handler reads.                                              *)
(***************************************************************************)
\* a header the request does not carry
Undefined == "undefined"

\* a || b
Or(a, b) == IF a = Undefined \/ a = "" THEN b ELSE a

Header(rq, name) == IF name \in DOMAIN rq.headers THEN rq.headers[name] ELSE Undefined

NoHeaders == [n \in {} |-> ""]

Request(method, url, headers) == [method |-> method, url |-> url, headers |-> headers]

\* the slot holds no request yet
NoRequest == [method |-> "", url |-> "", headers |-> NoHeaders]

ReceivePackHeaders ==
    [n \in {"content-type", "content-length"} |->
        IF n = "content-type" THEN "application/x-git-receive-pack-request" ELSE "4"]

\* requests a git client makes, and a request for another path
ClientRequests ==
    { Request("GET", "/git/repos1/info/refs?service=git-upload-pack", NoHeaders),
      Request("POST", "/git/repos1/git-receive-pack", ReceivePackHeaders),
      Request("GET", "/status", NoHeaders) }

UploadPackHeaders ==
    [n \in {"content-type", "content-length"} |->
        IF n = "content-type" THEN "application/x-git-upload-pack-request" ELSE "4"]

\* the advertisement and RPC targets of a repository, one with a repeated
\* query parameter, under either method and with or without a body
PolicyRequests ==
    { Request(m, t, h) :
        m \in {"GET", "POST"},
        t \in { "/git/repos1/info/refs?service=git-upload-pack",
                "/git/repos1/info/refs?service=git-receive-pack&service=git-upload-pack",
                "/git/repos1/git-upload-pack",
                "/git/repos1/git-receive-pack" },
        h \in {NoHeaders, ReceivePackHeaders, UploadPackHeaders} }

RECURSIVE Strings(_, _)
Strings(alphabet, n) ==
    IF n = 0 THEN {""}
    ELSE LET shorter == Strings(alphabet, n - 1)
         IN  shorter \cup {s \o c : s \in shorter, c \in alphabet}

\* request targets built from a prefix and every tail of at most MaxRest
\* characters over '/', '.' and a letter
RouteTargets == {p \o r : p \in {"/", "/git", "/git/"}, r \in Strings({"/", ".", "r"}, MaxRest)}

RouteRequests == {Request("GET", t, NoHeaders) : t \in RouteTargets}

(***************************************************************************)
(* The response object (http.ServerResponse).                              *)
(***************************************************************************)
\* a fresh response: status 200, no header, nothing written
NewResponse ==
    [statusCode  |-> 200,        \* res.statusCode
     headers     |-> NoHeaders,  \* lower-cased name -> <<name, value>>
     headersSent |-> FALSE,      \* the status line and headers are on the wire
     wireStatus  |-> 0,          \* the status code that went on the wire
     wireHeaders |-> NoHeaders,  \* the headers that went on the wire
     body        |-> "",         \* the body bytes handed to the transport
     ended       |-> FALSE,      \* res.end has been called
     endCalls    |-> 0,          \* calls of res.end
     headSets    |-> 0,          \* handler runs that assigned the status or a header
     lateWrites  |-> 0,          \* calls of res.write after res.end
     closed      |-> FALSE,      \* the client has disconnected
     closedOps   |-> 0,          \* calls of res.write on a closed response
     buffered    |-> 0]          \* body bytes not yet drained to the client

\* the implicit writeHead of the first write or end
FlushHead(r) ==
    IF r.headersSent THEN r
    ELSE [r EXCEPT !.headersSent = TRUE, !.wireStatus = r.statusCode,
                   !.wireHeaders = r.headers]

\* res.statusCode = code
ResStatus(r, code) == [r EXCEPT !.statusCode = code]

\* res.setHeader(name, value)
ResSetHeader(r, name, value) ==
    LET key == ToLowerCase(name)
    IN  [r EXCEPT !.headers =
            [k \in DOMAIN r.headers \cup {key} |->
                IF k = key THEN <<name, value>> ELSE r.headers[k]]]

\* res.write(data)
ResWrite(r, data) ==
    IF r.ended THEN [r EXCEPT !.lateWrites = @ + 1]
    ELSE IF r.closed THEN [r EXCEPT !.closedOps = @ + 1]
    ELSE [FlushHead(r) EXCEPT !.body = @ \o data, !.buffered = @ + Len(data)]

\* res.end(data)
ResEnd(r, data) ==
    IF r.ended THEN [r EXCEPT !.endCalls = @ + 1]
    ELSE IF r.closed THEN [r EXCEPT !.ended = TRUE, !.endCalls = @ + 1]
    ELSE [FlushHead(r) EXCEPT !.body = @ \o data, !.buffered = @ + Len(data),
                              !.ended = TRUE, !.endCalls = @ + 1]


(***************************************************************************)
(* State.                                                                  *)
(***************************************************************************)
VARIABLES
    proc,     \* the server process: "boot", "listening" or "crashed"
    fs,       \* the repository directories under GIT_PROJECT_ROOT
    bootIdx,  \* position of the provisioning loop in the list of names
    execs,    \* per repository, the runs of the creation commands
    req,      \* per slot, the request received (NoRequest before it arrives)
    outcome,  \* per slot, what requestHandler did with the request
    res,      \* per slot, the response object
    be,       \* per slot, the spawned git http-backend process
    parser,   \* per slot, the variables handleGitRequest declares for its handlers
    run       \* the number of this run of the program

vars == <<proc, fs, bootIdx, execs, req, outcome, res, be, parser, run>>

Slots == 1..NumRequests

\* the names the provisioning loop walks, in order
RepoNames == <<"repos1", "repos2", "repos3">>

(***************************************************************************)
(* requestHandler: routing.                                                *)
(***************************************************************************)
\* pathname.substring(5)
GitPath(pathname) == Substring(pathname, 5)

\* a check that looks for '..' only
IsTraversalDotsOnly(gitPath) == Includes(gitPath, "..")

\* the security check of requestHandler
IsTraversal(gitPath) == Includes(gitPath, "..") \/ Includes(gitPath, "//")

\* what requestHandler does with a request: "throw" (new URL throws), "400",
\* "forward" (handleGitRequest is called) or "404"
Route(rq) ==
    LET url == ParseUrl(rq.url)
    IN  IF ~url.ok THEN "throw"
        ELSE IF StartsWith(url.pathname, "/git/")
        THEN IF IsTraversal(GitPath(url.pathname)) THEN "400" ELSE "forward"
        ELSE "404"

\* the 400 branch
BadRequest(r) == ResEnd([ResStatus(r, 400) EXCEPT !.headSets = @ + 1], "Bad Request")

\* the 404 branch
NotFound(r) ==
    ResEnd(ResSetHeader([ResStatus(r, 404) EXCEPT !.headSets = @ + 1],
                        "Content-Type", "text/plain"),
           "Not Found")

(***************************************************************************)
(* handleGitRequest: the environment of the backend and its process.       *)
(***************************************************************************)
\* an environment whose PATH_INFO is the path below the '/git/' prefix
EnvBelowPrefix(rq) ==
    LET url == ParseUrl(rq.url)
    IN  [PATH_INFO      |-> Substring(url.pathname, 5),
         REQUEST_METHOD |-> rq.method,
         QUERY_STRING   |-> QueryString(url.query),
         CONTENT_TYPE   |-> Or(Header(rq, "content-type"), ""),
         CONTENT_LENGTH |-> Or(Header(rq, "content-length"), "0")]

\* the CGI variables derived from the request
Env(rq) ==
    LET url == ParseUrl(rq.url)
    IN  [PATH_INFO      |-> Substring(url.pathname, 4),
         REQUEST_METHOD |-> rq.method,
         QUERY_STRING   |-> QueryString(url.query),
         CONTENT_TYPE   |-> Or(Header(rq, "content-type"), ""),
         CONTENT_LENGTH |-> Or(Header(rq, "content-length"), "0")]

NoEnv ==
    [PATH_INFO |-> "", REQUEST_METHOD |-> "", QUERY_STRING |-> "",
     CONTENT_TYPE |-> "", CONTENT_LENGTH |-> ""]

\* no process has been spawned for the slot
NoBackend ==
    [state      |-> "none",   \* "none", "running" or "failed" (spawn failed)
     spawns     |-> 0,        \* calls of spawn
     env        |-> NoEnv,    \* the environment given to spawn
     out        |-> "",       \* everything the process writes to stdout
     pos        |-> 0,        \* bytes of out delivered by 'data' events
     errored    |-> FALSE,    \* 'error' has been emitted
     stdoutEnd  |-> FALSE]    \* stdout has emitted 'end'

\* spawn('git', ['http-backend'], {env})
Spawn(rq, ok, out) ==
    [NoBackend EXCEPT !.state = IF ok THEN "running" ELSE "failed",
                      !.spawns = 1,
                      !.env = Env(rq),
                      !.out = IF ok THEN out ELSE ""]

\* let responseHeaders = {}; let headersParsed = false; let responseBuffer = Buffer.alloc(0)
NewParser == [responseHeaders |-> <<>>, headersParsed |-> FALSE, responseBuffer |-> ""]

\* CGI responses of git http-backend
BackendOutputs ==
    { "Content-Type: a/b\r\n\r\n0000",
      "Status: 404 Not Found\r\nExpires: 0\r\n\r\n",
      "Status: 403 Forbidden\r\n\r\nno" }

\* CGI responses that exercise the header block: a Status name in upper and in
\* lower case, a value that holds colons, a value with white space around it,
\* a line without a colon, a block without a Status line
HeaderOutputs ==
    { "STATUS: 404 Not Found\r\nLocation: http://h:1/\r\n\r\nno",
      "fatal\r\nX-A:  b \r\n\r\n0",
      "Expires: 0\r\nstatus:403\r\n\r\n" }

\* what a backend that stops early leaves on its stdout: nothing, a message
\* that is no CGI response, a header block cut before or inside its delimiter
TruncatedOutputs == {"", "fatal: x\n", "Status: 500 E\r\n", "A: b\r\n\r"}

\* short CGI responses, for the specifications that interleave requests
ShortOutputs == {"A: b\r\n\r\n0000", "Status: 404\r\n\r\nno"}


(***************************************************************************)
(* The handlers handleGitRequest registers.                                *)
(***************************************************************************)
\* gitBackend.on('error'): status 500 and end, whatever the response's state
OnBackendError(r) ==
    ResEnd([ResStatus(r, 500) EXCEPT !.headSets = @ + 1], "Internal Server Error")

\* a handler that takes the text between the first and the second colon as
\* the value
HeaderLineFirstPart(header) ==
    LET parts == Split(header, ":")
        key   == Head(parts)
    IN  IF key # "" /\ Len(parts) > 1
        THEN <<key, Trim(parts[2])>>
        ELSE <<>>

\* one line of the header block as <<key, value>>, or <<>> when the line is
\* skipped (no colon, or nothing before the first colon)
HeaderLine(header) ==
    LET parts == Split(header, ":")
        key   == Head(parts)
    IN  IF key # "" /\ Len(parts) > 1
        THEN <<key, Trim(Join(Tail(parts), ":"))>>
        ELSE <<>>

IsStatus(line) == line # <<>> /\ ToLowerCase(line[1]) = "status"

\* the status codes the Status lines assign, in order
RECURSIVE StatusCodes(_)
StatusCodes(headers) ==
    IF Len(headers) = 0 THEN <<>>
    ELSE LET line == HeaderLine(Head(headers))
         IN  (IF IsStatus(line) THEN <<ParseInt(Head(Split(line[2], " ")))>> ELSE <<>>)
                \o StatusCodes(Tail(headers))

\* the <<key, value>> pairs the other lines assign to responseHeaders, in order
RECURSIVE HeaderPairs(_)
HeaderPairs(headers) ==
    IF Len(headers) = 0 THEN <<>>
    ELSE LET line == HeaderLine(Head(headers))
         IN  (IF line # <<>> /\ ~IsStatus(line) THEN <<line>> ELSE <<>>)
                \o HeaderPairs(Tail(headers))

\* Object.entries(responseHeaders).forEach(([key, value]) => res.setHeader(key, value))
RECURSIVE SetHeaders(_, _)
SetHeaders(r, entries) ==
    IF Len(entries) = 0 THEN r
    ELSE SetHeaders(ResSetHeader(r, Head(entries)[1], Head(entries)[2]), Tail(entries))

\* a handler that takes the end of the first line for the end of the block
HeaderEndIndexLine(buffer) == IndexOf(buffer, "\r\n")

\* the index of the header/body delimiter in the buffer
HeaderEndIndex(buffer) == IndexOf(buffer, "\r\n\r\n")

\* a handler that writes nothing of the chunk in which the header block ended
BodySectionDropped(buffer, headerEndIndex) == ""

\* the body bytes that follow the delimiter found at headerEndIndex
BodySection(buffer, headerEndIndex) == Substring(buffer, headerEndIndex + 4)

\* a handler that does not record that the header block was parsed
MarkParsedForgotten(p) == p

\* headersParsed = true
MarkParsed(p) == [p EXCEPT !.headersParsed = TRUE]

\* gitBackend.stdout.on('data'): [res, parser] after the handler ran on chunk
OnStdoutData(r, p, chunk) ==
    IF ~p.headersParsed
    THEN LET buffer         == p.responseBuffer \o chunk
             headerEndIndex == HeaderEndIndex(buffer)
         IN  IF headerEndIndex # -1
             THEN LET headers == Split(Prefix(buffer, headerEndIndex), "\r\n")
                      codes   == StatusCodes(headers)
                      entries == FromEntries(HeaderPairs(headers), p.responseHeaders)
                      r1 == IF Len(codes) = 0 THEN r ELSE ResStatus(r, codes[Len(codes)])
                      r2 == SetHeaders(r1, entries)
                      r3 == IF Len(codes) + Len(entries) = 0 THEN r2
                            ELSE [r2 EXCEPT !.headSets = @ + 1]
                      bodySection == BodySection(buffer, headerEndIndex)
                  IN  [res    |-> IF Len(bodySection) > 0 THEN ResWrite(r3, bodySection) ELSE r3,
                       parser |-> MarkParsed([p EXCEPT !.responseHeaders = entries,
                                                       !.responseBuffer = buffer])]
             ELSE [res |-> r, parser |-> [p EXCEPT !.responseBuffer = buffer]]
    ELSE [res |-> ResWrite(r, chunk), parser |-> p]

\* gitBackend.stdout.on('end')
OnStdoutEnd(r) == ResEnd(r, "")

\* parser variables declared once for the module, shared by every request
SharedSession(i) == 1

\* the parser variables the handlers registered for the request in slot i
\* read and write: those of their own call of handleGitRequest
SessionOf(i) == i

(***************************************************************************)
(* Start-up: the provisioning loop and server.listen.                      *)
(***************************************************************************)
\* the states of a repository directory: not there, made but not (fully)
\* initialised, a bare repository with receive-pack and upload-pack enabled
RepoStates == {"absent", "partial", "ready"}

\* existsSync(repoPath)
ExistsSync(state) == state # "absent"

\* one iteration of the forEach; execSync throws when the shell command fails,
\* leaving whatever the commands before the failing one did
Provision(failure) ==
    /\ proc = "boot"
    /\ bootIdx <= Len(RepoNames)
    /\ LET name == RepoNames[bootIdx]
       IN  IF ExistsSync(fs[name])
           THEN /\ failure = "none"
                /\ bootIdx' = bootIdx + 1
                /\ UNCHANGED <<proc, fs, execs>>
           ELSE /\ execs' = [execs EXCEPT ![name] = @ + 1]
                /\ IF failure = "none"
                   THEN /\ fs' = [fs EXCEPT ![name] = "ready"]
                        /\ bootIdx' = bootIdx + 1
                        /\ UNCHANGED proc
                   ELSE /\ fs' = [fs EXCEPT ![name] = failure]
                        /\ proc' = "crashed"
                        /\ UNCHANGED bootIdx
    /\ UNCHANGED <<req, outcome, res, be, parser, run>>

\* server.listen(PORT)
Listen ==
    /\ proc = "boot"
    /\ bootIdx = Len(RepoNames) + 1
    /\ proc' = "listening"
    /\ UNCHANGED <<fs, bootIdx, execs, run, req, outcome, res, be, parser>>

\* SIGINT: server.close, then process.exit(0) once no request is in flight
Shutdown ==
    /\ proc = "listening"
    /\ \A i \in Slots : outcome[i] = "forward" => res[i].ended
    /\ proc' = "stopped"
    /\ UNCHANGED <<fs, bootIdx, execs, req, outcome, res, be, parser, run>>

\* the program is started again after it exited or crashed: a new process
\* over the directories the earlier runs left
Restart ==
    /\ proc \in {"crashed", "stopped"}
    /\ run < MaxRuns
    /\ run' = run + 1
    /\ proc' = "boot"
    /\ bootIdx' = 1
    /\ req' = [i \in Slots |-> NoRequest]
    /\ outcome' = [i \in Slots |-> "none"]
    /\ res' = [i \in Slots |-> NewResponse]
    /\ be' = [i \in Slots |-> NoBackend]
    /\ parser' = [i \in Slots |-> NewParser]
    /\ UNCHANGED <<fs, execs>>

(***************************************************************************)
(* Events while the server listens.                                        *)
(***************************************************************************)
\* the 'request' event: requestHandler(req, res), with handleGitRequest when
\* the request is forwarded; spawnOk and out are the fate of the spawned process
Receive(i, rq, spawnOk, out) ==
    /\ proc = "listening"
    /\ req[i] = NoRequest
    /\ \A j \in Slots : j < i => req[j] # NoRequest
    /\ req' = [req EXCEPT ![i] = rq]
    /\ outcome' = [outcome EXCEPT ![i] = Route(rq)]
    /\ CASE Route(rq) = "throw" ->
              /\ proc' = "crashed"
              /\ UNCHANGED <<res, be, parser>>
         [] Route(rq) = "400" ->
              /\ res' = [res EXCEPT ![i] = BadRequest(NewResponse)]
              /\ UNCHANGED <<proc, be, parser>>
         [] Route(rq) = "404" ->
              /\ res' = [res EXCEPT ![i] = NotFound(NewResponse)]
              /\ UNCHANGED <<proc, be, parser>>
         [] Route(rq) = "forward" ->
              /\ be' = [be EXCEPT ![i] = Spawn(rq, spawnOk, out)]
              /\ parser' = [parser EXCEPT ![i] = NewParser]
              /\ res' = [res EXCEPT ![i] = NewResponse]
              /\ UNCHANGED proc
    /\ UNCHANGED <<fs, bootIdx, execs, run>>

\* the backend's 'error' event: emitted once, on the tick after a failed spawn
BackendError(i) ==
    /\ proc = "listening"
    /\ be[i].state = "failed"
    /\ ~be[i].errored
    /\ be' = [be EXCEPT ![i].errored = TRUE]
    /\ res' = [res EXCEPT ![i] = OnBackendError(res[i])]
    /\ UNCHANGED <<proc, fs, bootIdx, execs, run, req, outcome, parser>>

\* a 'data' event of the backend's stdout carrying the next n bytes
StdoutData(i, n) ==
    /\ proc = "listening"
    /\ be[i].state = "running"
    /\ n >= 1
    /\ be[i].pos + n <= Len(be[i].out)
    /\ LET chunk == SubSeq(be[i].out, be[i].pos + 1, be[i].pos + n)
           after == OnStdoutData(res[i], parser[SessionOf(i)], chunk)
       IN  /\ res' = [res EXCEPT ![i] = after.res]
           /\ parser' = [parser EXCEPT ![SessionOf(i)] = after.parser]
    /\ be' = [be EXCEPT ![i].pos = @ + n]
    /\ UNCHANGED <<proc, fs, bootIdx, execs, run, req, outcome>>

\* the 'end' event of the backend's stdout: after the last byte of a running
\* process, or at the end of file of the pipe of a process that failed to spawn
StdoutEnd(i) ==
    /\ proc = "listening"
    /\ ~be[i].stdoutEnd
    /\ \/ be[i].state = "running" /\ be[i].pos = Len(be[i].out)
       \/ be[i].state = "failed" /\ be[i].errored
    /\ be' = [be EXCEPT ![i].stdoutEnd = TRUE]
    /\ res' = [res EXCEPT ![i] = OnStdoutEnd(res[i])]
    /\ UNCHANGED <<proc, fs, bootIdx, execs, run, req, outcome, parser>>

\* the client goes away while its forwarded request is in flight; the source
\* registers no handler for it
ClientDisconnect(i) ==
    /\ proc = "listening"
    /\ outcome[i] = "forward"
    /\ ~res[i].ended
    /\ ~res[i].closed
    /\ res' = [res EXCEPT ![i].closed = TRUE, ![i].buffered = 0]
    /\ UNCHANGED <<proc, fs, bootIdx, execs, run, req, outcome, be, parser>>

\* the transport hands the buffered body bytes to the client
Drain(i) ==
    /\ proc = "listening"
    /\ res[i].buffered > 0
    /\ res' = [res EXCEPT ![i].buffered = 0]
    /\ UNCHANGED <<proc, fs, bootIdx, execs, run, req, outcome, be, parser>>

\* writing the request body to the backend's stdin fails (the backend exited
\* without reading it): req.pipe leaves the 'error' of stdin unhandled
StdinError(i) ==
    /\ proc = "listening"
    /\ be[i].state = "running"
    /\ Header(req[i], "content-length") # Undefined
    /\ proc' = "crashed"
    /\ UNCHANGED <<fs, bootIdx, execs, run, req, outcome, res, be, parser>>

(***************************************************************************)
(* Specifications.                                                         *)
(***************************************************************************)
\* a state right after construction of the per-slot objects
NoSlots ==
    /\ req = [i \in Slots |-> NoRequest]
    /\ outcome = [i \in Slots |-> "none"]
    /\ res = [i \in Slots |-> NewResponse]
    /\ be = [i \in Slots |-> NoBackend]
    /\ parser = [i \in Slots |-> NewParser]

AllReady == [n \in {RepoNames[k] : k \in 1..Len(RepoNames)} |-> "ready"]
NoExecs == [n \in {RepoNames[k] : k \in 1..Len(RepoNames)} |-> 0]

\* the server listens, its repositories provisioned by this or an earlier run
InitListening ==
    /\ proc = "listening"
    /\ fs = AllReady
    /\ bootIdx = Len(RepoNames) + 1
    /\ execs = NoExecs
    /\ run = 1
    /\ NoSlots

\* Concurrent requests of git clients and the events of their backends; a
\* 'data' event carries ConcChunk bytes, the last one what is left.
Init == InitListening

ChunkOf(i) ==
    IF Len(be[i].out) - be[i].pos < ConcChunk THEN Len(be[i].out) - be[i].pos ELSE ConcChunk

Next ==
    \/ \E i \in Slots, rq \in ClientRequests, ok \in BOOLEAN, out \in ShortOutputs :
          Receive(i, rq, ok, out)
    \/ \E i \in Slots : BackendError(i)
    \/ \E i \in Slots : StdoutData(i, ChunkOf(i))
    \/ \E i \in Slots : StdoutEnd(i)

Spec == Init /\ [][Next]_vars

\* Routing: one request with a generated target, and the events of its backend.
NextRoute ==
    \/ \E rq \in RouteRequests, ok \in BOOLEAN : Receive(1, rq, ok, "Status: 404\r\n\r\n")
    \/ BackendError(1)
    \/ StdoutData(1, Len(be[1].out))
    \/ StdoutEnd(1)

SpecRoute == Init /\ [][NextRoute]_vars

\* Streaming: one forwarded request, every chunking of the backend's output of
\* at most MaxChunk bytes a chunk, a transport that drains when it likes and a
\* client that may go away.
NextStream ==
    \/ \E rq \in ClientRequests, ok \in BOOLEAN, out \in BackendOutputs :
          Receive(1, rq, ok, out)
    \/ BackendError(1)
    \/ \E n \in 1..MaxChunk : StdoutData(1, n)
    \/ StdoutEnd(1)
    \/ ClientDisconnect(1)
    \/ Drain(1)
    \/ StdinError(1)

SpecStream == Init /\ [][NextStream]_vars

\* Start-up on a fresh checkout, then one request; the program may be stopped
\* and started again.
InitBoot ==
    /\ proc = "boot"
    /\ fs = [n \in DOMAIN AllReady |-> "absent"]
    /\ bootIdx = 1
    /\ execs = NoExecs
    /\ run = 1
    /\ NoSlots

NextBoot ==
    \/ \E failure \in {"none", "absent", "partial"} : Provision(failure)
    \/ Listen
    \/ Shutdown
    \/ Restart
    \/ \E rq \in ClientRequests, ok \in BOOLEAN, out \in ShortOutputs : Receive(1, rq, ok, out)
    \/ BackendError(1)
    \/ StdoutData(1, ChunkOf(1))
    \/ StdoutEnd(1)
    \/ StdinError(1)

SpecBoot == InitBoot /\ [][NextBoot]_vars

\* Method policy: one request, for an advertisement or an RPC target under
\* either method or for a page outside /git/, and the events of its backend.
NextPolicy ==
    \/ \E rq \in PolicyRequests \cup ClientRequests, ok \in BOOLEAN, out \in ShortOutputs :
          Receive(1, rq, ok, out)
    \/ BackendError(1)
    \/ StdoutData(1, ChunkOf(1))
    \/ StdoutEnd(1)

SpecPolicy == Init /\ [][NextPolicy]_vars

\* Parsing: one forwarded request whose backend writes a header block of any
\* shape, or stops before the end of one, in every chunking of at most
\* MaxChunk bytes a chunk.
NextParse ==
    \/ \E rq \in ClientRequests, ok \in BOOLEAN, out \in HeaderOutputs \cup TruncatedOutputs :
          Receive(1, rq, ok, out)
    \/ BackendError(1)
    \/ \E n \in 1..MaxChunk : StdoutData(1, n)
    \/ StdoutEnd(1)

SpecParse == Init /\ [][NextParse]_vars


(***************************************************************************)
(* Properties.                                                             *)
(***************************************************************************)
\* the request of slot i has been handed to requestHandler
Received(i) == req[i] # NoRequest

\* the response of slot i is the complete reply `code body`, and no backend
\* was spawned for the request
Replied(i, code, body) ==
    /\ res[i].ended
    /\ res[i].wireStatus = code
    /\ res[i].body = body
    /\ be[i].spawns = 0

\* C1: every request whose pathname starts with /git/ and whose remainder
\* after that prefix contains '..' or '//' is answered 400 'Bad Request', its
\* response is ended, and handleGitRequest is not called for it: no backend
\* process is spawned.
C1_TraversalRejected ==
    \A i \in Slots :
        LET url == ParseUrl(req[i].url)
        IN  ( /\ Received(i)
              /\ url.ok
              /\ StartsWith(url.pathname, "/git/")
              /\ \/ Includes(Substring(url.pathname, 5), "..")
                 \/ Includes(Substring(url.pathname, 5), "//") )
            => /\ outcome[i] = "400"
               /\ Replied(i, 400, "Bad Request")
               /\ be[i] = NoBackend

\* a request for /git/r// (a double slash) and one for /git/r.. were rejected
C1_Witness ==
    /\ req[1].url \in {"/git/r//", "/git/r.."}
    /\ res[1].ended
    /\ res[1].wireStatus = 400
    /\ be[1].spawns = 0

\* the request target of slot i has, after the prefix /git/, a '..' segment
\* or an empty segment
RawTraversal(i) ==
    LET path == BeforeQuery(req[i].url)
        segs == Split(Substring(path, 5), "/")
    IN  /\ StartsWith(path, "/git/")
        /\ \/ \E k \in 1..Len(segs) : segs[k] = ".."
           \/ Includes(Substring(path, 4), "//")

\* the PATH_INFO of a spawned backend has no '..' segment and no empty segment
CleanPathInfo(i) ==
    LET segs == Split(be[i].env.PATH_INFO, "/")
    IN  /\ \A k \in 1..Len(segs) : segs[k] # ".."
        /\ ~Includes(be[i].env.PATH_INFO, "//")

\* C2: the traversal check runs on the raw request path: a request whose path
\* has a parent-directory segment or an empty segment after the prefix
\* (/git//repos1 included) is rejected with 400 before a backend is spawned,
\* so no backend is handed a PATH_INFO with a '..' or an empty segment.
C2_RawPathChecked ==
    \A i \in Slots :
        /\ (Received(i) /\ RawTraversal(i)) => Replied(i, 400, "Bad Request")
        /\ be[i].spawns > 0 => CleanPathInfo(i)

\* C3: a request whose path does not start with /git/ (the bare /git
\* included) is answered 404 'Not Found' without a backend; and every request
\* has exactly one of the outcomes 404, 400 and forwarded to a backend.
C3_RoutingTotal ==
    \A i \in Slots :
        Received(i) =>
            LET url      == ParseUrl(req[i].url)
                notFound == Replied(i, 404, "Not Found")
                bad      == Replied(i, 400, "Bad Request")
                forward  == be[i].spawns = 1
            IN  /\ ~(url.ok /\ StartsWith(url.pathname, "/git/")) => notFound
                /\ notFound \/ bad \/ forward
                /\ ~(notFound /\ bad) /\ ~(notFound /\ forward) /\ ~(bad /\ forward)

\* the status and headers of slot i's response
StatusAndHeaders(i) == <<res[i].statusCode, res[i].headers>>

\* C4: for a forwarded request, whatever the backend's events: the handlers
\* assign the status and headers in at most one run, what went on the wire
\* before the first body byte is the status and headers the response has, and
\* no step changes the status or the headers once a body byte was written.
C4_HeadersBeforeBody ==
    /\ [](\A i \in Slots :
            outcome[i] = "forward" =>
                /\ res[i].headSets <= 1
                /\ res[i].body # "" =>
                      /\ res[i].headersSent
                      /\ res[i].wireStatus = res[i].statusCode
                      /\ res[i].wireHeaders = res[i].headers)
    /\ [][\A i \in Slots :
            (outcome[i] = "forward" /\ res[i].body # "") => StatusAndHeaders(i)' = StatusAndHeaders(i)]_vars

\* a 403 response whose header block was parsed, whose body was written and
\* which was ended
C4_Witness ==
    /\ outcome[1] = "forward"
    /\ parser[1].headersParsed
    /\ res[1].headSets = 1
    /\ res[1].wireStatus = 403
    /\ res[1].body = "no"
    /\ res[1].ended

\* C5: the response of a forwarded request is ended exactly once: res.end is
\* called once the backend's output completes or the backend errors, and
\* neither a second res.end nor a res.write follows it.
C5_EndedOnce ==
    \A i \in Slots :
        /\ res[i].endCalls <= 1
        /\ res[i].lateWrites = 0
        /\ (be[i].stdoutEnd \/ be[i].errored) => res[i].ended

\* what the handlers of slot i hold and have produced
SlotState(i) == <<req[i], outcome[i], res[i], be[i], parser[i]>>

\* the response a backend alone produces from the bytes it has delivered
Alone(i) == OnStdoutData(NewResponse, NewParser, Prefix(be[i].out, be[i].pos)).res

\* C6: under every interleaving of the events of the requests in flight, each
\* response has the status, headers and body its own backend's output
\* produces, each request's parser variables hold its own backend's bytes,
\* and a step changes the state of one request only.
C6_RequestsIndependent ==
    /\ [](\A i \in Slots :
            be[i].state = "running" =>
                /\ res[i].statusCode = Alone(i).statusCode
                /\ res[i].headers = Alone(i).headers
                /\ res[i].body = Alone(i).body
                /\ parser[i].headersParsed = (HeaderEndIndex(Prefix(be[i].out, be[i].pos)) # -1)
                /\ StartsWith(be[i].out, parser[i].responseBuffer))
    /\ [][\A i, j \in Slots :
            i # j => (SlotState(i)' = SlotState(i) \/ SlotState(j)' = SlotState(j))]_vars

\* two requests in flight together, each with body bytes of its own backend
C6_Witness ==
    /\ be[1].state = "running" /\ be[2].state = "running"
    /\ be[1].out # be[2].out
    /\ ~be[1].stdoutEnd /\ ~be[2].stdoutEnd
    /\ res[1].body # "" /\ res[2].body # ""
    /\ res[1].body # res[2].body
    /\ res[1].statusCode # res[2].statusCode

\* C7: a failure is scoped to one request: a repository creation failure or a
\* backend failure never terminates the process, and a backend that failed
\* yields a 500 response for its request.
C7_FailuresRequestScoped ==
    /\ proc # "crashed"
    /\ \A i \in Slots : be[i].errored => res[i].wireStatus = 500

\* C8: once the client of a forwarded request has disconnected, the session
\* is aborted: no further stdout data of the backend is read and no write is
\* made to the closed response.
C8_AbortOnDisconnect ==
    \A i \in Slots : res[i].closedOps = 0

\* C9: back-pressure propagates: while the transport is full (it buffers
\* HighWaterMark bytes or more) no further body bytes are written to it
\* until it has drained.
C9_BackPressure ==
    [][\A i \in Slots :
        res[i].buffered >= HighWaterMark => res'[i].buffered <= res[i].buffered]_vars

\* s.endsWith(p)
EndsWith(s, p) == Len(s) >= Len(p) /\ Substring(s, Len(s) - Len(p)) = p

\* the backend of slot i is executing a receive-pack RPC
ReceivePackRunning(i) ==
    /\ be[i].state = "running"
    /\ ~be[i].stdoutEnd
    /\ be[i].env.REQUEST_METHOD = "POST"
    /\ EndsWith(be[i].env.PATH_INFO, "/git-receive-pack")

\* C10: receive-pack RPCs against one repository are serialized: at most one
\* receive-pack session for a repository is executing at any time.
C10_ReceivePackSerialized ==
    \A i, j \in Slots :
        (i # j /\ ReceivePackRunning(i) /\ ReceivePackRunning(j))
            => be[i].env.PATH_INFO # be[j].env.PATH_INFO


\* the backend of slot i was asked for a ref advertisement
IsAdvertisement(i) == EndsWith(be[i].env.PATH_INFO, "/info/refs")

\* the backend of slot i was asked for the RPC of service svc
IsRpc(i, svc) == EndsWith(be[i].env.PATH_INFO, "/git-" \o svc)

\* C11: the router enforces the method policy before any protocol work: a
\* backend session is started for an info/refs advertisement only under GET,
\* and for an upload-pack or receive-pack RPC only under POST with the
\* content type application/x-git-<service>-request.
C11_MethodPolicy ==
    \A i \in Slots :
        be[i].spawns > 0 =>
            /\ IsAdvertisement(i) => be[i].env.REQUEST_METHOD = "GET"
            /\ \A svc \in {"upload-pack", "receive-pack"} :
                  IsRpc(i, svc) =>
                      /\ be[i].env.REQUEST_METHOD = "POST"
                      /\ be[i].env.CONTENT_TYPE = "application/x-git-" \o svc \o "-request"

\* C12: provisioning is idempotent, also after a run that failed part-way: a
\* name the loop has passed (created, or reported as already existing) is a
\* fully initialised bare repository, so a run that completes provisioning
\* leaves what one successful run leaves.
C12_ProvisioningIdempotent ==
    /\ \A k \in 1..Len(RepoNames) :
          (proc # "crashed" /\ bootIdx > k) => fs[RepoNames[k]] = "ready"
    /\ proc = "listening" => fs = AllReady

\* the response the handler produces when all of the backend's output arrives
\* in one chunk
OneChunk(i) == OnStdoutData(NewResponse, NewParser, be[i].out).res

\* C13: the CGI response parser is independent of chunking: however the
\* backend's output is split into 'data' chunks (inside the delimiter and
\* inside a header line included), the status and the headers are those of
\* the output arriving in one chunk, and the body written is exactly the
\* bytes delivered after the first CRLF CRLF, in order, none lost or repeated.
C13_ChunkingIndependent ==
    \A i \in Slots :
        (be[i].state = "running" /\ ~res[i].closed) =>
            LET delivered == Prefix(be[i].out, be[i].pos)
                at        == IndexOf(delivered, "\r\n\r\n")
            IN  IF at = -1
                THEN /\ res[i].body = ""
                     /\ res[i].statusCode = 200
                     /\ res[i].headers = NoHeaders
                ELSE /\ res[i].body = Substring(delivered, at + 4)
                     /\ res[i].statusCode = OneChunk(i).statusCode
                     /\ res[i].headers = OneChunk(i).headers

\* a complete response whose delimiter was split over chunks (a chunk is
\* shorter than the delimiter) and whose first body byte came in the chunk
\* that completed the delimiter
C13_Witness ==
    /\ be[1].out = "Content-Type: a/b\r\n\r\n0000"
    /\ be[1].stdoutEnd
    /\ ~res[1].closed
    /\ res[1].body = "0000"
    /\ MaxChunk < 4
    /\ Len(parser[1].responseBuffer) = IndexOf(be[1].out, "\r\n\r\n") + 5

\* the lines of the header block of the output of the backend of slot i
HeaderBlock(i) == Split(Prefix(be[i].out, IndexOf(be[i].out, "\r\n\r\n")), "\r\n")
\* the name and the value of a line that holds a colon
NameOf(line) == Prefix(line, IndexOf(line, ":"))
ValueOf(line) == Trim(Substring(line, IndexOf(line, ":") + 1))
NamedLine(line) == IndexOf(line, ":") # -1
StatusLine(line) == NamedLine(line) /\ ToLowerCase(NameOf(line)) = "status"

\* C14: status translation. Once the header block is parsed: a Status line
\* (name compared without case) gives the HTTP status, the integer at the
\* start of its value, and is not forwarded as a header; without one the
\* status is 200; every other line with a colon is a header of that name with
\* the trimmed value, colons of the value kept; a line without a colon gives
\* no header.
C14_StatusTranslation ==
    \A i \in Slots :
        (be[i].state = "running" /\ parser[i].headersParsed) =>
            LET block == HeaderBlock(i)
                lines == {block[k] : k \in 1..Len(block)}
            IN  /\ \A l \in lines : StatusLine(l) => res[i].statusCode = ParseInt(ValueOf(l))
                /\ (~\E l \in lines : StatusLine(l)) => res[i].statusCode = 200
                /\ "status" \notin DOMAIN res[i].headers
                /\ \A l \in lines :
                      (NamedLine(l) /\ ~StatusLine(l)) =>
                          /\ ToLowerCase(NameOf(l)) \in DOMAIN res[i].headers
                          /\ res[i].headers[ToLowerCase(NameOf(l))] = <<NameOf(l), ValueOf(l)>>
                /\ \A h \in DOMAIN res[i].headers :
                      \E l \in lines : NamedLine(l) /\ ToLowerCase(NameOf(l)) = h
                /\ res[i].headersSent =>
                      /\ res[i].wireStatus = res[i].statusCode
                      /\ res[i].wireHeaders = res[i].headers

\* the response to a block with an upper-case STATUS line and a value that
\* holds colons has gone out: 404, and Location with its whole value
C14_Witness ==
    /\ be[1].out = "STATUS: 404 Not Found\r\nLocation: http://h:1/\r\n\r\nno"
    /\ res[1].ended
    /\ res[1].wireStatus = 404
    /\ res[1].wireHeaders = [n \in {"location"} |-> <<"Location", "http://h:1/">>]
    /\ res[1].body = "no"

\* the <<name, value>> parameters a query string holds, in order
ParamsOf(query) == SearchParams(Split(query, "&"))
ParamNames(params) == {params[k][1] : k \in 1..Len(params)}
\* the value the last parameter of that name holds
LastValue(params, name) ==
    LET at == {k \in 1..Len(params) : params[k][1] = name}
    IN  params[CHOOSE k \in at : \A j \in at : j <= k][2]

EndedWithoutDelimiter(i) ==
    /\ be[i].spawns > 0
    /\ be[i].stdoutEnd
    /\ IndexOf(Prefix(be[i].out, be[i].pos), "\r\n\r\n") = -1

\* C16 as stated: when the backend's stdout ends without having produced the
\* CRLF CRLF delimiter, the response is ended with no body bytes written, no
\* backend header set and the status at its default, 200 unless the error
\* handler set 500.
C16_NoBodyWithoutDelimiter ==
    \A i \in Slots :
        EndedWithoutDelimiter(i) =>
            /\ res[i].ended
            /\ res[i].body = ""
            /\ res[i].headers = NoHeaders
            /\ res[i].statusCode = IF be[i].errored THEN 500 ELSE 200

\* C16, amended: when the backend's stdout ends without having produced the
\* CRLF CRLF delimiter, the response is ended with no byte of the backend's
\* output written (the body is empty, or only the error handler's 'Internal
\* Server Error' when that handler set 500), no backend header set and the
\* status at its default; the bytes accumulated in responseBuffer stay there.
C16_BackendBytesWithheld ==
    \A i \in Slots :
        EndedWithoutDelimiter(i) =>
            /\ res[i].ended
            /\ res[i].body = IF be[i].errored THEN "Internal Server Error" ELSE ""
            /\ res[i].headers = NoHeaders
            /\ res[i].wireHeaders = NoHeaders
            /\ res[i].statusCode = IF be[i].errored THEN 500 ELSE 200
            /\ res[i].wireStatus = res[i].statusCode
            /\ ~parser[i].headersParsed
            /\ parser[i].responseBuffer = be[i].out

\* a backend that wrote a message that is no CGI response and stopped: the
\* message sits in responseBuffer and the client got an empty 200
C16_Witness ==
    /\ be[1].state = "running"
    /\ be[1].out = "fatal: x\n"
    /\ be[1].stdoutEnd
    /\ parser[1].responseBuffer = "fatal: x\n"
    /\ res[1].ended
    /\ res[1].wireStatus = 200
    /\ res[1].body = ""

=============================================================================
